---- MODULE Spec2Model ----
(***************************************************************************)
(* Model of the compliance run of SupaCheck: the GET handler of the        *)
(* run-checks route (src/src/app/api/users/route.ts, lines 22-153) with    *)
(* its helpers logSecurityIssue and checkRLSStatus, against an upstream    *)
(* Supabase project (principals, relations, PITR flag, security_logs).     *)
(*                                                                         *)
(* Optional values (null / undefined in the source) are sequences of       *)
(* length at most one: None is <<>>, Some(x) is <<x>>.                     *)
(***************************************************************************)
EXTENDS Integers, Sequences, FiniteSets, TLC

VARIABLES
    users,          \* upstream: the principals of the project, in listing order
    tables,         \* upstream: the rows rpc('check_rls_status') would return
    pitr,           \* upstream: the rows rpc('check_pitr_status') would return
    security_logs,  \* upstream: the security_logs table (the audit log)
    request,        \* the cookies of the request the handler was given
    faults,         \* how the upstream calls of the run ended
    logs_before,    \* the audit log as it was when the request arrived
    response,       \* the handler's response; NoResponse while there is none
    previous,       \* the faults and the response of the run before this one
    session,        \* SecurityAIChat props: feature, resourceName, initialContext
    messages,       \* SecurityAIChat state: the transcript
    input,          \* SecurityAIChat state: the text of the input box
    chatLoading,    \* SecurityAIChat state: loading
    pending,        \* the fetches to /api/security-chat that await their answer
    clock,          \* logical time of the chat, for message timestamps
    handled,        \* the chat request answered last, how it ended, the
                    \* transcript before (shown) and after handling it, and
                    \* the requests whose answers were appended so far (replied)
    cookies,        \* the browser's projectUrl and serviceKey cookies
    login,          \* the login request answered last and its response
    results,        \* DashboardPage state: the displayed report, or null
    loading,        \* DashboardPage state: loading
    chatOpen,       \* DashboardPage state: chatOpen
    selectedIssue,  \* DashboardPage state: selectedIssue
    inflight,       \* the fetches to /api/run-checks that await their answer
    runs,           \* the number of runs the dashboard has started
    handledRun      \* how the run handled last ended, and the results before it

runVars == <<users, tables, pitr, security_logs, request, faults, logs_before, response,
             previous>>
chatVars == <<session, messages, input, chatLoading, pending, clock, handled>>
dashVars == <<cookies, login, results, loading, chatOpen, selectedIssue, inflight, runs,
              handledRun>>
vars == <<runVars, chatVars, dashVars>>

None == <<>>
Some(x) == <<x>>

\* ---------------------------------------------------------------- bounds
MaxUsers == 3
MaxRelations == 1

\* ---------------------------------------------------- upstream project
\* supabase.auth.admin.listUsers() is called without page arguments: the
\* upstream answers with its first page only.
PerPage == 2

\* The i-th principal of the project; only its factor list varies.
UserIds == <<"u1", "u2", "u3", "u4">>
UserEmails == <<Some("ann@x.io"), None, Some("cy@x.io"), Some("di@x.io")>>
FactorLists == {None, Some(<<>>), Some(<<"totp">>)}

\* The i-th relation of the inspected schema; its security attributes vary.
TableNames == <<"logs", "orders", "posts_table">>
PolicyCounts == {0, 2}

\* What rpc('check_pitr_status') can hold: no row, a row with the flag, a
\* row without it.
PitrRows == {<<>>, <<[pitr_enabled |-> Some(TRUE)]>>,
             <<[pitr_enabled |-> Some(FALSE)]>>, <<[pitr_enabled |-> None]>>}

UserLists ==
    UNION {{[i \in 1..n |-> [id |-> UserIds[i], email |-> UserEmails[i],
                             factors |-> f[i]]] : f \in [1..n -> FactorLists]}
           : n \in 0..MaxUsers}

TableRows(i) ==
    {[table_name |-> TableNames[i], rls_enabled |-> e, has_policies |-> h,
      policy_count |-> c] : e \in BOOLEAN, h \in BOOLEAN, c \in PolicyCounts}

TableLists ==
    UNION {{r \in [1..n -> UNION {TableRows(j) : j \in 1..n}] :
               \A i \in 1..n : r[i] \in TableRows(i)}
           : n \in 0..MaxRelations}

\* ------------------------------------------------------------- requests
\* A cookie is absent, empty, or holds a value; the project accepts exactly
\* one endpoint and one service key.
ProjectUrls == {None, Some(""), Some("https://wrong.supabase.co"), Some("https://proj.supabase.co")}
ServiceKeys == {None, Some("eyJbad"), Some("eyJgood")}
Requests == [projectUrl : ProjectUrls, serviceKey : ServiceKeys]

\* `!value` of a cookie read with req.cookies.get(name)?.value
Falsy(c) == c = None \/ c = Some("")

\* Whether the upstream project accepts the credentials of a request.
Authenticates(req) ==
    req.projectUrl = Some("https://proj.supabase.co") /\ req.serviceKey = Some("eyJgood")

\* The errors an upstream call can end with.
InvalidKeyError == [name |-> "AuthApiError", message |-> "Invalid API key"]
FetchError == [name |-> "FetchError", message |-> "fetch failed"]

\* How the upstream calls of one run end.  listUsers returns its error;
\* an rpc or an insert resolves with data ("ok"), resolves with an error
\* ("error"), or rejects ("throw").  At most one insert of the run fails:
\* the insertAt-th one (0: none).
Outcomes == {"ok", "error", "throw"}
MaxInserts == MaxUsers + MaxRelations + 1
Faults ==
    {f \in [listUsers : {"ok", "error"}, rls : Outcomes, pitr : Outcomes,
            insertAt : 0..MaxInserts, insertMode : {"error", "throw"}] :
        f.insertAt = 0 => f.insertMode = "error"}
NoFaults == [listUsers |-> "ok", rls |-> "ok", pitr |-> "ok", insertAt |-> 0,
             insertMode |-> "error"]

InsertOutcome(f, n) == IF f.insertAt = n THEN f.insertMode ELSE "ok"

\* ------------------------------------------------------ logSecurityIssue
suggestedFixes(feature) ==
    CASE feature = "RLS" -> "Enable RLS with: ALTER TABLE table_name ENABLE ROW LEVEL SECURITY; and add appropriate policies"
      [] feature = "MFA" -> "Enable MFA in authentication settings and require users to set up 2FA"
      [] feature = "PITR" -> "Enable PITR in your project settings for better backup and recovery options"

\* autoFixable with the MFA entry set to true.
autoFixableMfaTrue(feature) == feature \in {"RLS", "MFA"}

autoFixable(feature) ==
    CASE feature = "RLS" -> TRUE
      [] feature = "MFA" -> FALSE
      [] feature = "PITR" -> FALSE

\* The row that logSecurityIssue inserts; id and timestamp are assigned by
\* the store (position in the table, used as the logical insertion time).
LogRow(log, feature, status, resourceName) ==
    [id |-> Len(log) + 1,
     timestamp |-> Len(log) + 1,
     feature |-> feature,
     status |-> status,
     resource_name |-> resourceName,
     suggested_fix |-> IF ~status THEN Some(suggestedFixes(feature)) ELSE None,
     auto_fixable |-> IF ~status THEN autoFixable(feature) ELSE FALSE]

\* logSecurityIssue written with upsert: an earlier row for the same
\* feature and resource is overwritten.
logSecurityIssueUpsert(log, feature, status, resourceName, outcome) ==
    LET same == {k \in 1..Len(log) :
                    log[k].feature = feature /\ log[k].resource_name = resourceName}
    IN  [log |-> IF outcome # "ok" THEN log
                 ELSE IF same = {}
                 THEN Append(log, LogRow(log, feature, status, resourceName))
                 ELSE [k \in 1..Len(log) |->
                          IF k \in same
                          THEN [LogRow(log, feature, status, resourceName) EXCEPT !.id = k]
                          ELSE log[k]],
         thrown |-> outcome = "throw"]

\* One call of logSecurityIssue whose insert ends with `outcome`: the log
\* after it, and whether the awaited insert rejected.  The result of a
\* resolved insert is not inspected.
logSecurityIssue(log, feature, status, resourceName, outcome) ==
    [log |-> IF outcome = "ok"
             THEN Append(log, LogRow(log, feature, status, resourceName))
             ELSE log,
     thrown |-> outcome = "throw"]

\* A `for ... await logSecurityIssue(...)` loop over items, each a record
\* [status, resource]; n is the number of inserts the run issued before
\* the loop.  The loop stops at the first insert that rejects.
RECURSIVE LogEach(_, _, _, _, _)
LogEach(log, feature, items, n, f) ==
    IF items = <<>> THEN [log |-> log, thrown |-> FALSE]
    ELSE LET r == logSecurityIssue(log, feature, Head(items).status,
                                   Head(items).resource, InsertOutcome(f, n + 1))
         IN  IF r.thrown THEN r
             ELSE LogEach(r.log, feature, Tail(items), n + 1, f)

\* -------------------------------------------------------- checkRLSStatus
\* The finding checkRLSStatus returns when the rpc resolved with an error.
RlsErrorFinding ==
    [table |-> "posts_table", rls_enabled |-> FALSE, has_policies |-> FALSE,
     policy_count |-> 0]

RlsFinding(t) ==
    [table |-> t.table_name, rls_enabled |-> t.rls_enabled,
     has_policies |-> t.has_policies, policy_count |-> t.policy_count]

\* The status computed from the enablement flag alone.
RlsLogItemFlagOnly(t) ==
    [status |-> t.rls_enabled, resource |-> Some(t.table_name)]

RlsLogItem(t) ==
    [status |-> (t.rls_enabled /\ t.has_policies), resource |-> Some(t.table_name)]

\* checkRLSStatus that reports only the relations the audit log does not
\* name yet.
checkRLSStatusOnlyNew(log, rlsData, n, f) ==
    IF f.rls = "throw"
    THEN [results |-> None, log |-> log, thrown |-> TRUE, inserts |-> 0]
    ELSE IF f.rls = "error"
    THEN [results |-> Some(<<RlsErrorFinding>>), log |-> log, thrown |-> FALSE,
          inserts |-> 0]
    ELSE LET r == LogEach(log, "RLS", [i \in 1..Len(rlsData) |-> RlsLogItem(rlsData[i])], n, f)
             fresh == SelectSeq(rlsData,
                                LAMBDA t : \A k \in 1..Len(log) :
                                    log[k].resource_name # Some(t.table_name))
         IN  IF r.thrown
             THEN [results |-> None, log |-> r.log, thrown |-> TRUE, inserts |-> 0]
             ELSE [results |-> Some([i \in 1..Len(fresh) |-> RlsFinding(fresh[i])]),
                   log |-> r.log, thrown |-> FALSE, inserts |-> Len(rlsData)]

\* checkRLSStatus whose error branch returns nothing.
checkRLSStatusNoResult(log, rlsData, n, f) ==
    IF f.rls = "throw"
    THEN [results |-> None, log |-> log, thrown |-> TRUE, inserts |-> 0]
    ELSE IF f.rls = "error"
    THEN [results |-> None, log |-> log, thrown |-> FALSE, inserts |-> 0]
    ELSE LET r == LogEach(log, "RLS", [i \in 1..Len(rlsData) |-> RlsLogItem(rlsData[i])], n, f)
         IN  IF r.thrown
             THEN [results |-> None, log |-> r.log, thrown |-> TRUE, inserts |-> 0]
             ELSE [results |-> Some([i \in 1..Len(rlsData) |-> RlsFinding(rlsData[i])]),
                   log |-> r.log, thrown |-> FALSE, inserts |-> Len(rlsData)]

\* checkRLSStatus on a project whose rpc would return rlsData, after n
\* inserts of the run: the findings (None when it threw), the log after
\* it, whether it threw, and the number of inserts it issued.
checkRLSStatus(log, rlsData, n, f) ==
    IF f.rls = "throw"
    THEN [results |-> None, log |-> log, thrown |-> TRUE, inserts |-> 0]
    ELSE IF f.rls = "error"
    THEN [results |-> Some(<<RlsErrorFinding>>), log |-> log, thrown |-> FALSE,
          inserts |-> 0]
    ELSE LET r == LogEach(log, "RLS", [i \in 1..Len(rlsData) |-> RlsLogItem(rlsData[i])], n, f)
         IN  IF r.thrown
             THEN [results |-> None, log |-> r.log, thrown |-> TRUE, inserts |-> 0]
             ELSE [results |-> Some([i \in 1..Len(rlsData) |-> RlsFinding(rlsData[i])]),
                   log |-> r.log, thrown |-> FALSE, inserts |-> Len(rlsData)]

\* -------------------------------------------------------------------- GET
Min(a, b) == IF a < b THEN a ELSE b

\* supabase.auth.admin.listUsers(): the error it returns, or the first
\* page of the project's principals.
listUsers(req, us, f) ==
    IF req.projectUrl # Some("https://proj.supabase.co")
    THEN [users |-> <<>>, error |-> Some(FetchError)]
    ELSE IF req.serviceKey # Some("eyJgood")
    THEN [users |-> <<>>, error |-> Some(InvalidKeyError)]
    ELSE IF f.listUsers = "error"
    THEN [users |-> <<>>, error |-> Some(FetchError)]
    ELSE [users |-> SubSeq(us, 1, Min(Len(us), PerPage)), error |-> None]

\* The comparison written as `>= 0`.
MfaEnabledAnyList(user) == user.factors # None /\ Len(user.factors[1]) >= 0

\* Boolean(user.factors?.length > 0)
MfaEnabled(user) == user.factors # None /\ Len(user.factors[1]) > 0

MfaFinding(user) ==
    [id |-> user.id, email |-> user.email, mfa_enabled |-> MfaEnabled(user)]

\* The record logged as passed whatever the finding says.
MfaLogItemPassed(m) == [status |-> TRUE, resource |-> m.email]

MfaLogItem(m) == [status |-> m.mfa_enabled, resource |-> m.email]

\* The default written as `?? true`.
PitrEnabledDefaultTrue(pitrData) ==
    IF pitrData = None \/ pitrData[1] = <<>> \/ pitrData[1][1].pitr_enabled = None
    THEN TRUE
    ELSE pitrData[1][1].pitr_enabled = Some(TRUE)

\* pitrData?.[0]?.pitr_enabled || false
PitrEnabled(pitrData) ==
    /\ pitrData # None
    /\ Len(pitrData[1]) > 0
    /\ pitrData[1][1].pitr_enabled = Some(TRUE)

\* .from('security_logs').select('*').order('timestamp', {ascending: false}).limit(10)
LogWindow == 10

\* The read issued without awaiting the last insert: it misses the newest row.
RecentLogsStale(log) ==
    [i \in 1..Min(Len(log) - 1, LogWindow) |-> log[Len(log) - i]]

\* The read with ascending order.
RecentLogsAscending(log) ==
    [i \in 1..Min(Len(log), LogWindow) |-> log[i]]

RecentLogs(log) ==
    [i \in 1..Min(Len(log), LogWindow) |-> log[Len(log) + 1 - i]]

NoResponse ==
    [status |-> 0, error |-> None, details |-> None, MFA |-> None, RLS |-> None,
     PITR |-> None, logs |-> None]

ErrorResponse(status, message, details) ==
    [status |-> status, error |-> Some(message), details |-> details, MFA |-> None,
     RLS |-> None, PITR |-> None, logs |-> None]

\* The catch block of GET: 500 with the message of what was thrown.
Caught(error, log) ==
    [response |-> ErrorResponse(500, error.message, Some(error)), log |-> log]

\* if (!projectUrl || !serviceKey)
NotAuthenticated(req) == Falsy(req.projectUrl) \/ Falsy(req.serviceKey)

\* The handler without the check of userError.
userErrorIgnored(listed) == FALSE

\* if (userError) throw userError
userErrorThrown(listed) == listed.error # None

\* The handler on request req against a project with principals us,
\* relations ts and PITR rows p, whose audit log is log, when the upstream
\* calls end as f says: the response and the audit log after the run.
GET(req, us, ts, p, log, f) ==
    IF NotAuthenticated(req)
    THEN [response |-> ErrorResponse(401, "Not authenticated", None), log |-> log]
    ELSE
    LET listed == listUsers(req, us, f) IN
    IF userErrorThrown(listed) THEN Caught(listed.error[1], log)
    ELSE
    LET mfaResults == [i \in 1..Len(listed.users) |-> MfaFinding(listed.users[i])]
        mfaLogged == LogEach(log, "MFA",
                             [i \in 1..Len(mfaResults) |-> MfaLogItem(mfaResults[i])], 0, f)
    IN
    IF mfaLogged.thrown THEN Caught(FetchError, mfaLogged.log)
    ELSE
    LET rls == checkRLSStatus(mfaLogged.log, ts, Len(mfaResults), f) IN
    IF rls.thrown THEN Caught(FetchError, rls.log)
    ELSE
    IF f.pitr = "throw" THEN Caught(FetchError, rls.log)
    ELSE
    LET pitrData == IF f.pitr = "error" THEN None ELSE Some(p)
        pitrLogged == logSecurityIssue(rls.log, "PITR", PitrEnabled(pitrData), None,
                                       InsertOutcome(f, Len(mfaResults) + rls.inserts + 1))
    IN
    IF pitrLogged.thrown THEN Caught(FetchError, pitrLogged.log)
    ELSE
    [response |-> [status |-> 200, error |-> None, details |-> None,
                   MFA |-> Some(mfaResults),
                   RLS |-> rls.results,
                   PITR |-> Some(PitrEnabled(pitrData)),
                   logs |-> Some(RecentLogs(pitrLogged.log))],
     log |-> pitrLogged.log]

\* ------------------------------------------------------------ the system
\* The outcomes of the calls a run on request req makes.  A call that is
\* never issued has no outcome: rejected credentials or a failed listing
\* stop the run at listUsers; a rejected insert or rpc stops it there; an
\* rpc that fails issues no RLS insert.  Inserts are numbered in the order
\* the run issues them.
CallFaults(req, us, ts) ==
    IF ~Authenticates(req) THEN {NoFaults}
    ELSE LET nMfa == Min(Len(us), PerPage)
             nRls(f) == IF f.rls = "ok" THEN Len(ts) ELSE 0
             throwAt(f) == IF f.insertMode = "throw" THEN f.insertAt ELSE 0
             rlsCalled(f) == throwAt(f) = 0 \/ throwAt(f) > nMfa
             pitrCalled(f) == /\ rlsCalled(f)
                              /\ f.rls # "throw"
                              /\ (throwAt(f) = 0 \/ throwAt(f) > nMfa + nRls(f))
             issued(f) == IF ~rlsCalled(f) \/ f.rls = "throw" THEN nMfa
                          ELSE IF f.pitr = "throw" THEN nMfa + nRls(f)
                          ELSE nMfa + nRls(f) + 1
         IN  {f \in Faults :
                /\ f.listUsers = "error" => f = [NoFaults EXCEPT !.listUsers = "error"]
                /\ ~rlsCalled(f) => f.rls = "ok"
                /\ ~pitrCalled(f) => f.pitr = "ok"
                /\ f.insertAt <= issued(f)}

\* No chat is open (chatOpen is false): the component is not mounted.
NoChat ==
    /\ session = [feature |-> "RLS", resourceName |-> None, initialContext |-> <<>>]
    /\ messages = <<>>
    /\ input = ""
    /\ chatLoading = FALSE
    /\ pending = {}
    /\ clock = 1
    /\ handled = [id |-> 0, outcome |-> "none"]

\* The dashboard as it is mounted, in a browser without cookies: nothing
\* run, nothing displayed.
NoLogin == [body |-> None, status |-> 0, projectUrl |-> None, serviceKey |-> None]
NoRunHandled == [outcome |-> "none", before |-> None]
NoDash ==
    /\ cookies = [projectUrl |-> None, serviceKey |-> None]
    /\ login = NoLogin
    /\ results = None
    /\ loading = FALSE
    /\ chatOpen = FALSE
    /\ selectedIssue = None
    /\ inflight = 0
    /\ runs = 0
    /\ handledRun = NoRunHandled

Init ==
    /\ users \in UserLists
    /\ tables \in TableLists
    /\ pitr \in PitrRows
    /\ security_logs = <<>>
    /\ request = [projectUrl |-> None, serviceKey |-> None]
    /\ faults = NoFaults
    /\ logs_before = <<>>
    /\ response = NoResponse
    /\ previous = [faults |-> NoFaults, response |-> NoResponse]
    /\ NoChat
    /\ NoDash

\* One request to the route is answered.
RunChecks ==
    /\ response = NoResponse
    /\ \E req \in Requests : \E f \in CallFaults(req, users, tables) :
          LET r == GET(req, users, tables, pitr, security_logs, f) IN
          /\ request' = req
          /\ faults' = f
          /\ logs_before' = security_logs
          /\ response' = r.response
          /\ security_logs' = r.log
    /\ previous' = [faults |-> faults, response |-> response]
    /\ UNCHANGED <<users, tables, pitr, chatVars, dashVars>>

Next == RunChecks

Spec == Init /\ [][Next]_vars

\* ------------------------------------------------- runs in succession
\* A project with MaxUsers principals and MaxRelations relations, whose
\* attributes are fixed by position; only the PITR rows vary.
RunsUsers ==
    [i \in 1..MaxUsers |->
        [id |-> UserIds[i], email |-> UserEmails[i],
         factors |-> IF i % 3 = 1 THEN Some(<<"totp">>)
                     ELSE IF i % 3 = 2 THEN None ELSE Some(<<>>)]]

RunsTables ==
    [i \in 1..MaxRelations |->
        [table_name |-> TableNames[i], rls_enabled |-> TRUE,
         has_policies |-> (i % 2 = 0), policy_count |-> IF i % 2 = 0 THEN 2 ELSE 0]]

InitRuns ==
    /\ users = RunsUsers
    /\ tables = RunsTables
    /\ pitr \in PitrRows
    /\ security_logs = <<>>
    /\ request = [projectUrl |-> None, serviceKey |-> None]
    /\ faults = NoFaults
    /\ logs_before = <<>>
    /\ response = NoResponse
    /\ previous = [faults |-> NoFaults, response |-> NoResponse]
    /\ NoChat
    /\ NoDash

\* The requests of a session: without cookies, or with accepted ones.
RunsRequests ==
    {[projectUrl |-> None, serviceKey |-> None],
     [projectUrl |-> Some("https://proj.supabase.co"), serviceKey |-> Some("eyJgood")]}

\* The call outcomes followed over several runs: any outcome of the
\* listing and of the two probes, every insert succeeding.
RunsFaults(req) == {f \in CallFaults(req, users, tables) : f.insertAt = 0}

\* The next request to the route is answered, against the project and the
\* audit log the earlier runs left; requests are followed until the log
\* has outgrown the read-back window.
RunChecksAgain ==
    /\ Len(security_logs) <= LogWindow
    /\ \E req \in RunsRequests : \E f \in RunsFaults(req) :
          LET r == GET(req, users, tables, pitr, security_logs, f) IN
          /\ request' = req
          /\ faults' = f
          /\ logs_before' = security_logs
          /\ response' = r.response
          /\ security_logs' = r.log
    /\ previous' = [faults |-> faults, response |-> response]
    /\ UNCHANGED <<users, tables, pitr, chatVars, dashVars>>

NextRuns == RunChecksAgain

SpecRuns == InitRuns /\ [][NextRuns]_vars

\* ============================================================ the chat
\* A text is a sequence of parts (the pieces a template string joins).
\* --------------------------------------------- /api/security-chat (POST)
securityDocs(feature) ==
    CASE feature = "RLS" -> "Enabling Row Level Security (RLS) in Supabase Dashboard: ..."
      [] feature = "MFA" -> "Setting up Multi-Factor Authentication (MFA) in Supabase: ..."
      [] feature = "PITR" -> "Enabling Point in Time Recovery (PITR) in Supabase: ..."

systemPrompt(feature, resourceName) ==
    <<"You are a Supabase security expert assistant. You help users fix security issues and implement best practices.",
      "Current context: ", securityDocs(feature)>>
    \o (IF resourceName # None /\ resourceName # Some("")
        THEN <<"Specifically for resource: ", resourceName[1]>>
        ELSE <<>>)
    \o <<"Provide specific, actionable advice based on Supabase documentation. Include code examples when relevant.">>

\* The mapping that keeps the user's messages only.
forwardMessagesUserOnly(msgs) ==
    LET own == SelectSeq(msgs, LAMBDA m : m.role = "user")
    IN  [i \in 1..Len(own) |-> [role |-> own[i].role, content |-> own[i].content]]

\* messages.map(msg => ({role: msg.role, content: msg.content}))
forwardMessages(msgs) ==
    [i \in 1..Len(msgs) |-> [role |-> msgs[i].role, content |-> msgs[i].content]]

\* What the chat-completion call can end with: a reply text, or a failure.
Replies == {<<"Open Authentication > Policies and click Enable RLS.">>,
            <<"Go to Database > Backups.">>}
CompletionOutcomes ==
    {[kind |-> "reply", text |-> t] : t \in Replies}
        \cup {[kind |-> "failure", text |-> <<>>]}

\* The route on a request body when the completion ends with `outcome`:
\* the request it sent to the chat-completion capability, and its answer.
POST(body, outcome) ==
    LET forwarded ==
            <<[role |-> "system",
               content |-> Some(systemPrompt(body.feature, body.resourceName))]>>
            \o forwardMessages(body.messages)
    IN  IF outcome.kind = "reply"
        THEN [forwarded |-> forwarded, status |-> 200, message |-> Some(outcome.text),
              error |-> None]
        ELSE [forwarded |-> forwarded, status |-> 500, message |-> None,
              error |-> Some("Failed to process chat message")]

\* ------------------------------------------------------- SecurityAIChat
MaxSends == 2

Features == {"RLS", "MFA", "PITR"}
Sessions ==
    {[feature |-> "RLS", resourceName |-> Some("orders"),
      initialContext |-> <<"How to ", "enable RLS", " for ", "orders">>],
     [feature |-> "MFA", resourceName |-> Some("ann@x.io"),
      initialContext |-> <<"How to enable and configure MFA for this user">>],
     [feature |-> "MFA", resourceName |-> None,
      initialContext |-> <<"How to enable and configure MFA for this user">>],
     [feature |-> "PITR", resourceName |-> None,
      initialContext |-> <<"How to enable and configure Point in Time Recovery for your project">>]}

\* What the user can type; the first two are blank after trim().
Inputs == {"", "  ", "Where is that button?", "It is greyed out"}
Blank(text) == text \in {"", "  "}

\* The greeting that leaves the resource out.
InitialMessagesNoResource(props) ==
    <<[role |-> "assistant",
       content |-> Some(<<"I'm here to help you enable ", props.feature, ". ">>
                        \o props.initialContext),
       timestamp |-> 0]>>

\* useState<Message[]>([...]): the transcript a session starts with.
InitialMessages(props) ==
    <<[role |-> "assistant",
       content |-> Some(<<"I'm here to help you enable ", props.feature>>
                        \o (IF props.resourceName # None /\ props.resourceName # Some("")
                            THEN <<" for ", props.resourceName[1]>>
                            ELSE <<>>)
                        \o <<". ">> \o props.initialContext),
       timestamp |-> 0]>>

NothingHandled ==
    [id |-> 0, body |-> [messages |-> <<>>, feature |-> "", resourceName |-> None],
     forwarded |-> <<>>, outcome |-> "none", reply |-> <<>>, status |-> 0,
     message |-> None, shown |-> <<>>, after |-> <<>>, replied |-> <<>>]

InitChat ==
    /\ session \in Sessions
    /\ messages = InitialMessages(session)
    /\ input = ""
    /\ chatLoading = FALSE
    /\ pending = {}
    /\ clock = 1
    /\ handled = NothingHandled

\* The number of messages the user has sent in this session.
Sent == Cardinality({i \in 1..Len(messages) : messages[i].role = "user"})

\* onChange of the input box
SetInput ==
    /\ \E text \in Inputs : text # input /\ input' = text
    /\ UNCHANGED <<session, messages, chatLoading, pending, clock, handled, runVars, dashVars>>

\* The body of the fetch: the transcript of this render with the new
\* message, and the two props.
sendBodyLastOnly(msgs, userMessage, props) ==
    [messages |-> <<userMessage>>, feature |-> props.feature,
     resourceName |-> props.resourceName]

sendBody(msgs, userMessage, props) ==
    [messages |-> Append(msgs, userMessage), feature |-> props.feature,
     resourceName |-> props.resourceName]

\* handleSendMessage up to its fetch: the transcript gets the user's
\* message, the box is cleared, loading is set, and the request carries
\* the transcript of this render plus the new message.
handleSendMessage ==
    /\ ~Blank(input)
    /\ Sent < MaxSends
    /\ LET userMessage == [role |-> "user", content |-> Some(<<input>>), timestamp |-> clock]
       IN  /\ messages' = Append(messages, userMessage)
           /\ pending' = pending \cup
                 {[id |-> clock, body |-> sendBody(messages, userMessage, session)]}
    /\ input' = ""
    /\ chatLoading' = TRUE
    /\ clock' = clock + 1
    /\ UNCHANGED <<session, handled, runVars, dashVars>>

\* The Send button: disabled={loading}
SendClick == ~chatLoading /\ handleSendMessage

\* onKeyPress: e.key === 'Enter' && handleSendMessage()
SendEnter == handleSendMessage

\* handleSendMessage after its fetch resolved: the route answered req
\* (status 200 or 500); the body is parsed and data.message appended as an
\* assistant message, whatever the status.
FetchResolved ==
    \E req \in pending : \E outcome \in CompletionOutcomes :
        LET res == POST(req.body, outcome)
            reply == [role |-> "assistant", content |-> res.message, timestamp |-> clock]
        IN  /\ messages' = Append(messages, reply)
            /\ chatLoading' = FALSE
            /\ pending' = pending \ {req}
            /\ clock' = clock + 1
            /\ handled' = [id |-> req.id, body |-> req.body, forwarded |-> res.forwarded,
                           outcome |-> outcome.kind, reply |-> outcome.text,
                           status |-> res.status, message |-> res.message,
                           shown |-> messages, after |-> Append(messages, reply),
                           replied |-> Append(handled.replied, req.id)]
            /\ UNCHANGED <<session, input, runVars, dashVars>>

\* handleSendMessage after its fetch rejected (the request never reached
\* the route): the catch block logs to the console.
FetchRejected ==
    \E req \in pending :
        /\ chatLoading' = FALSE
        /\ pending' = pending \ {req}
        /\ handled' = [id |-> req.id, body |-> req.body, forwarded |-> <<>>,
                       outcome |-> "rejected", reply |-> <<>>, status |-> 0,
                       message |-> None, shown |-> messages, after |-> messages,
                       replied |-> handled.replied]
        /\ UNCHANGED <<session, messages, input, clock, runVars, dashVars>>

NextChat == SetInput \/ SendClick \/ SendEnter \/ FetchResolved \/ FetchRejected

\* A chat session next to a dashboard that has run nothing.
InitChatSession ==
    /\ InitChat
    /\ users = <<>>
    /\ tables = <<>>
    /\ pitr = <<>>
    /\ security_logs = <<>>
    /\ request = [projectUrl |-> None, serviceKey |-> None]
    /\ faults = NoFaults
    /\ logs_before = <<>>
    /\ response = NoResponse
    /\ previous = [faults |-> NoFaults, response |-> NoResponse]
    /\ NoDash

SpecChat == InitChatSession /\ [][NextChat]_vars

\* ============================================================ the login
\* --------------------------------------------------- /api/login (POST)
\* A login request body: not JSON (None), or an object whose two fields
\* are absent, empty, or hold a value.
LoginBodies ==
    {None} \cup {Some([projectUrl |-> u, serviceKey |-> k]) :
                     u \in ProjectUrls, k \in ServiceKeys \cup {Some("")}}

\* The test written with `&&`.
missingCredentialsBoth(body) == Falsy(body.projectUrl) /\ Falsy(body.serviceKey)

\* if (!projectUrl || !serviceKey)
missingCredentials(body) == Falsy(body.projectUrl) \/ Falsy(body.serviceKey)

\* The route on a request body: the status and message of its response and
\* the cookies the response sets (None: the cookie is not set).
loginPOST(body) ==
    IF body = None
    THEN [status |-> 500, message |-> "Login failed", projectUrl |-> None,
          serviceKey |-> None]
    ELSE IF missingCredentials(body[1])
    THEN [status |-> 400, message |-> "Missing credentials", projectUrl |-> None,
          serviceKey |-> None]
    ELSE [status |-> 200, message |-> "Login successful",
          projectUrl |-> body[1].projectUrl, serviceKey |-> body[1].serviceKey]

\* A login request is answered; the browser stores the cookies the
\* response sets.
Login ==
    /\ \E body \in LoginBodies :
          LET res == loginPOST(body) IN
          /\ login' = [body |-> body, status |-> res.status,
                        projectUrl |-> res.projectUrl, serviceKey |-> res.serviceKey]
          /\ cookies' = [projectUrl |-> IF res.projectUrl # None THEN res.projectUrl
                                         ELSE cookies.projectUrl,
                          serviceKey |-> IF res.serviceKey # None THEN res.serviceKey
                                         ELSE cookies.serviceKey]
    /\ UNCHANGED <<results, loading, chatOpen, selectedIssue, inflight, runs, handledRun,
                   runVars, chatVars>>

\* A request to the run-checks route with the cookies the browser holds.
RunChecksWithCookies ==
    /\ response = NoResponse
    /\ LET r == GET(cookies, users, tables, pitr, security_logs, NoFaults) IN
          /\ request' = cookies
          /\ faults' = NoFaults
          /\ logs_before' = security_logs
          /\ response' = r.response
          /\ security_logs' = r.log
    /\ previous' = [faults |-> faults, response |-> response]
    /\ UNCHANGED <<users, tables, pitr, chatVars, dashVars>>

NextLogin == Login \/ RunChecksWithCookies

\* A browser without cookies in front of the login route.
InitLogin ==
    /\ users = RunsUsers
    /\ tables = RunsTables
    /\ pitr = <<>>
    /\ security_logs = <<>>
    /\ request = [projectUrl |-> None, serviceKey |-> None]
    /\ faults = NoFaults
    /\ logs_before = <<>>
    /\ response = NoResponse
    /\ previous = [faults |-> NoFaults, response |-> NoResponse]
    /\ NoChat
    /\ NoDash

SpecLogin == InitLogin /\ [][NextLogin]_vars

\* ======================================================== the dashboard
MaxRuns == 2

\* The button that never is disabled.
runDisabledNever(l) == FALSE

\* The run button: disabled={loading}
runDisabled(l) == l

\* response.ok of fetch
responseOk(res) == res.status >= 200 /\ res.status <= 299

\* The handler that clears the report when the run failed.
nextResultsCleared(shown, res) == IF responseOk(res) THEN Some(res) ELSE None

\* The results state after handleRunChecks handled response res:
\* setResults(data) is reached only when response.ok.
nextResults(shown, res) == IF responseOk(res) THEN Some(res) ELSE shown

\* `value || undefined` of a resource name
OrUndefined(v) == IF v = None \/ v = Some("") THEN None ELSE v

\* The "Get Help" button of an MFA row and the issue it selects.
mfaHelpShown(user) == ~user.mfa_enabled
mfaIssue(user) ==
    [feature |-> "MFA", resourceName |-> OrUndefined(user.email),
     context |-> <<"How to enable and configure MFA for this user">>]

\* The button that tests the enablement flag only.
rlsHelpShownFlagOnly(table) == ~table.rls_enabled

\* The "Get Help" button of an RLS row and the issue it selects.
rlsHelpShown(table) == ~table.rls_enabled \/ ~table.has_policies
rlsIssue(table) ==
    [feature |-> "RLS", resourceName |-> Some(table.table),
     context |-> <<"How to ",
                   IF ~table.rls_enabled THEN "enable RLS" ELSE "add security policies",
                   " for ", table.table>>]

\* The "Get Help" button of the PITR card and the issue it selects.
pitrHelpShown(report) == report.PITR # Some(TRUE)
pitrIssue ==
    [feature |-> "PITR", resourceName |-> None,
     context |-> <<"How to enable and configure Point in Time Recovery for your project">>]

\* The "Chat with AI to fix this" button of a log row and its issue.
logHelpShown(log) == ~log.status /\ log.suggested_fix # None /\ log.auto_fixable
logIssue(log) ==
    [feature |-> log.feature, resourceName |-> OrUndefined(log.resource_name),
     context |-> log.suggested_fix]

\* The issues the rendered report offers a "Get Help" button for.
HelpButtons(report) ==
    {mfaIssue(report.MFA[1][i]) :
        i \in {j \in 1..Len(report.MFA[1]) : mfaHelpShown(report.MFA[1][j])}}
    \cup {rlsIssue(report.RLS[1][i]) :
              i \in {j \in 1..Len(report.RLS[1]) : rlsHelpShown(report.RLS[1][j])}}
    \cup (IF pitrHelpShown(report) THEN {pitrIssue} ELSE {})

\* The issues the log section of the rendered report offers a button for.
LogButtons(report) ==
    {logIssue(report.logs[1][i]) :
        i \in {j \in 1..Len(report.logs[1]) : logHelpShown(report.logs[1][j])}}

\* handleRunChecks up to its fetch, from the run button.
handleRunChecks ==
    /\ ~runDisabled(loading)
    /\ runs < MaxRuns
    /\ loading' = TRUE
    /\ inflight' = inflight + 1
    /\ runs' = runs + 1
    /\ UNCHANGED <<cookies, login, results, chatOpen, selectedIssue, handledRun,
                   runVars, chatVars>>

\* handleRunChecks after its fetch resolved: the route answered the
\* request, which carried the browser's cookies; a response that is not ok
\* is thrown to the catch block (alert), an ok one is stored.
RunResolved ==
    /\ inflight > 0
    /\ \E f \in RunsFaults(cookies) :
          LET r == GET(cookies, users, tables, pitr, security_logs, f) IN
          /\ request' = cookies
          /\ faults' = f
          /\ logs_before' = security_logs
          /\ response' = r.response
          /\ security_logs' = r.log
          /\ results' = nextResults(results, r.response)
          /\ handledRun' = [outcome |-> IF responseOk(r.response) THEN "report" ELSE "notOk",
                             before |-> results]
    /\ previous' = [faults |-> faults, response |-> response]
    /\ loading' = FALSE
    /\ inflight' = inflight - 1
    /\ UNCHANGED <<users, tables, pitr, cookies, login, chatOpen, selectedIssue, runs,
                   chatVars>>

\* handleRunChecks after its fetch rejected (the request never reached the
\* route): the catch block alerts.
RunRejected ==
    /\ inflight > 0
    /\ handledRun' = [outcome |-> "rejected", before |-> results]
    /\ loading' = FALSE
    /\ inflight' = inflight - 1
    /\ UNCHANGED <<cookies, login, results, chatOpen, selectedIssue, runs, runVars,
                   chatVars>>

\* setSelectedIssue(issue); setChatOpen(true): SecurityAIChat is mounted
\* with the issue as its props.
OpenChat(issue) ==
    /\ selectedIssue' = Some(issue)
    /\ chatOpen' = TRUE
    /\ session' = [feature |-> issue.feature, resourceName |-> issue.resourceName,
                    initialContext |-> issue.context]
    /\ messages' = InitialMessages([feature |-> issue.feature,
                                     resourceName |-> issue.resourceName,
                                     initialContext |-> issue.context])
    /\ input' = ""
    /\ chatLoading' = FALSE
    /\ pending' = {}
    /\ clock' = 1
    /\ handled' = NothingHandled
    /\ UNCHANGED <<cookies, login, results, loading, inflight, runs, handledRun, runVars>>

\* A "Get Help" button of the displayed report is clicked.
GetHelp ==
    /\ ~chatOpen
    /\ results # None
    /\ \E issue \in HelpButtons(results[1]) : OpenChat(issue)

\* A "Chat with AI to fix this" button of the log section is clicked.
ChatWithAI ==
    /\ ~chatOpen
    /\ results # None
    /\ \E issue \in LogButtons(results[1]) : OpenChat(issue)

\* onClose: setChatOpen(false); setSelectedIssue(null); the chat is unmounted.
CloseChat ==
    /\ chatOpen
    /\ chatOpen' = FALSE
    /\ selectedIssue' = None
    /\ session' = [feature |-> "RLS", resourceName |-> None, initialContext |-> <<>>]
    /\ messages' = <<>>
    /\ input' = ""
    /\ chatLoading' = FALSE
    /\ pending' = {}
    /\ clock' = 1
    /\ handled' = [id |-> 0, outcome |-> "none"]
    /\ UNCHANGED <<cookies, login, results, loading, inflight, runs, handledRun, runVars>>

NextDash ==
    handleRunChecks \/ RunResolved \/ RunRejected \/ GetHelp \/ ChatWithAI
        \/ CloseChat

\* The cookies a browser holds when the dashboard is opened: none, or the
\* pair an earlier login stored.
DashCookies ==
    {[projectUrl |-> None, serviceKey |-> None],
     [projectUrl |-> Some("https://proj.supabase.co"), serviceKey |-> Some("eyJbad")],
     [projectUrl |-> Some("https://proj.supabase.co"), serviceKey |-> Some("eyJgood")]}

\* The projects the dashboard is followed on: relations whose policy count
\* matches their policy flag, PITR off (no row) or on.
DashTables == {ts \in TableLists : \A i \in 1..Len(ts) :
                  ts[i].has_policies = (ts[i].policy_count > 0)}
DashPitrRows == {<<>>, <<[pitr_enabled |-> Some(TRUE)]>>}

\* The dashboard as it is mounted, in front of such a project.
InitDash ==
    /\ users = RunsUsers
    /\ tables \in DashTables
    /\ pitr \in DashPitrRows
    /\ security_logs = <<>>
    /\ request = [projectUrl |-> None, serviceKey |-> None]
    /\ faults = NoFaults
    /\ logs_before = <<>>
    /\ response = NoResponse
    /\ previous = [faults |-> NoFaults, response |-> NoResponse]
    /\ NoChat
    /\ cookies \in DashCookies
    /\ login = NoLogin
    /\ results = None
    /\ loading = FALSE
    /\ chatOpen = FALSE
    /\ selectedIssue = None
    /\ inflight = 0
    /\ runs = 0
    /\ handledRun = NoRunHandled

SpecDash == InitDash /\ [][NextDash]_vars

\* ======================================================================
\* What a run did, read off the state
\* ======================================================================
Answered == response # NoResponse
Report == response.status = 200

\* The audit records the run appended.
NewRecords == SubSeq(security_logs, Len(logs_before) + 1, Len(security_logs))

\* The names of the project's relations.
RelationNames == {tables[i].table_name : i \in 1..Len(tables)}

\* An upstream call of one of the three checks failed, for a reason other
\* than the credentials.
MfaCallFailed == Answered /\ Authenticates(request) /\ faults.listUsers = "error"
RlsCallFailed == Answered /\ faults.rls # "ok"
PitrCallFailed == Answered /\ faults.pitr # "ok"

\* No audit insert of the run failed.
InsertsSucceeded == faults.insertAt = 0

\* ---------------------------------------------------------------------
\* C1. Fail-closed RLS: when rpc('check_rls_status') fails, the RLS list
\* of the run holds, for every relation X of the project, a finding named
\* X with rls_enabled = FALSE and policy_count = 0, and no finding is
\* attributed to something that is not a relation of the project.
\* Violated: the error branch returns one finding named 'posts_table'
\* whatever the relations are.
C1_RlsFailsClosedPerResource ==
    (RlsCallFailed /\ tables # <<>>) =>
        /\ response.RLS # None
        /\ \A j \in 1..Len(response.RLS[1]) : response.RLS[1][j].table \in RelationNames
        /\ \A x \in RelationNames :
              \E j \in 1..Len(response.RLS[1]) :
                  /\ response.RLS[1][j].table = x
                  /\ ~response.RLS[1][j].rls_enabled
                  /\ response.RLS[1][j].policy_count = 0

\* ---------------------------------------------------------------------
\* C2. Provider isolation: with accepted credentials and no failing audit
\* insert, a failed upstream call of the MFA, RLS or PITR check does not
\* abort the run: the response is a report with all three parts, the
\* failed check reported as failing.
\* Violated: a failed listing is rethrown and a rejected rpc is not
\* caught, and both end in the handler's catch block with status 500.
C2_ProviderIsolation ==
    (Authenticates(request) /\ InsertsSucceeded
        /\ (MfaCallFailed \/ RlsCallFailed \/ PitrCallFailed)) =>
        /\ Report
        /\ response.MFA # None /\ response.RLS # None /\ response.PITR # None
        /\ PitrCallFailed => response.PITR = Some(FALSE)
        /\ RlsCallFailed =>
              \A j \in 1..Len(response.RLS[1]) : ~response.RLS[1][j].rls_enabled

\* ---------------------------------------------------------------------
\* C3. One audit record per finding per run: a run that returns a report
\* (and whose inserts all succeeded) appended exactly |MFA| + |RLS| + 1
\* records: one per MFA finding, then one per RLS finding, then the PITR
\* one.
\* Violated: the finding returned when the rpc fails is never logged.
C3_OneRecordPerFinding ==
    (Report /\ InsertsSucceeded) =>
        LET mfa == response.MFA[1]
            rls == response.RLS[1]
        IN  /\ Len(NewRecords) = Len(mfa) + Len(rls) + 1
            /\ \A i \in 1..Len(mfa) :
                  /\ NewRecords[i].feature = "MFA"
                  /\ NewRecords[i].resource_name = mfa[i].email
            /\ \A j \in 1..Len(rls) :
                  /\ NewRecords[Len(mfa) + j].feature = "RLS"
                  /\ NewRecords[Len(mfa) + j].resource_name = Some(rls[j].table)
            /\ NewRecords[Len(mfa) + Len(rls) + 1].feature = "PITR"

\* ---------------------------------------------------------------------
\* C4. When the RLS probe fails, the run appends, for each relation of the
\* project, exactly one audit record with feature RLS, and that record is
\* failing (status = FALSE) with auto_fixable = TRUE.
\* Violated: the error branch of checkRLSStatus returns before the loop
\* that logs, so no RLS record is written at all.
C4_RlsFailureAudited ==
    (RlsCallFailed /\ InsertsSucceeded) =>
        \A x \in RelationNames :
            LET recs == {k \in 1..Len(NewRecords) :
                            /\ NewRecords[k].feature = "RLS"
                            /\ NewRecords[k].resource_name = Some(x)}
            IN  /\ Cardinality(recs) = 1
                /\ \A k \in recs : ~NewRecords[k].status /\ NewRecords[k].auto_fixable

\* ---------------------------------------------------------------------
\* C5. Authentication failure writes nothing: a request without both
\* credentials is answered 401 'Not authenticated', a request whose
\* credentials the project rejects is answered 500 with the listing's
\* error; neither response carries MFA, RLS or PITR findings and neither
\* run appends an audit record.
C5_AuthFailureWritesNothing ==
    (Answered /\ ~Authenticates(request)) =>
        /\ security_logs = logs_before
        /\ response.MFA = None /\ response.RLS = None /\ response.PITR = None
        /\ response.error # None
        /\ IF Falsy(request.projectUrl) \/ Falsy(request.serviceKey)
           THEN response.status = 401 /\ response.error = Some("Not authenticated")
           ELSE response.status = 500

\* A run whose service key the project rejected.
C5_Witness ==
    /\ Answered
    /\ request.projectUrl = Some("https://proj.supabase.co")
    /\ request.serviceKey = Some("eyJbad")
    /\ response.status = 500
    /\ users # <<>>

\* ---------------------------------------------------------------------
\* C6. The response to a run whose credentials do not authenticate
\* differs from the response of every run on the same project whose
\* credentials do authenticate, whatever the outcome of that run's
\* upstream calls (a report whose checks all failed, a report without
\* findings, the error of a non-authentication failure).
\* Violated: every failure after the cookie check ends in one catch block
\* that answers 500 with the message of the error; credentials for the
\* wrong endpoint and an unreachable project with accepted credentials
\* give the same response.
C6_AuthFailureDistinct ==
    (Answered /\ ~Authenticates(request)) =>
        \A req \in Requests :
            Authenticates(req) =>
                \A f \in CallFaults(req, users, tables) :
                    GET(req, users, tables, pitr, logs_before, f).response # response

\* ---------------------------------------------------------------------
\* C7. Audit-write failure is non-fatal: when an audit insert of the run
\* fails (resolves with an error, or rejects), the response has the same
\* status and the same MFA, RLS and PITR parts as the response of the
\* same run with every insert succeeding.
\* Violated: a rejected insert propagates out of logSecurityIssue to the
\* handler's catch block, which answers 500.
C7_AuditFailureNonFatal ==
    (Answered /\ Authenticates(request) /\ ~InsertsSucceeded) =>
        LET ok == GET(request, users, tables, pitr, logs_before,
                      [faults EXCEPT !.insertAt = 0, !.insertMode = "error"]).response
        IN  /\ response.status = ok.status
            /\ response.MFA = ok.MFA
            /\ response.RLS = ok.RLS
            /\ response.PITR = ok.PITR

\* ---------------------------------------------------------------------
\* C8. Every failing audit record (status = FALSE) has a suggested_fix and
\* has auto_fixable = TRUE exactly when its feature is RLS; every passing
\* record has no suggested_fix and auto_fixable = FALSE.
C8_RemediationFields ==
    \A k \in 1..Len(security_logs) :
        LET r == security_logs[k] IN
        IF r.status
        THEN r.suggested_fix = None /\ r.auto_fixable = FALSE
        ELSE r.suggested_fix # None /\ r.auto_fixable = (r.feature = "RLS")

\* A run that logged a failing record of each feature and a passing one.
C8_Witness ==
    /\ \E k \in 1..Len(NewRecords) : NewRecords[k].feature = "MFA" /\ ~NewRecords[k].status
    /\ \E k \in 1..Len(NewRecords) : NewRecords[k].feature = "RLS" /\ ~NewRecords[k].status
    /\ \E k \in 1..Len(NewRecords) : NewRecords[k].feature = "PITR" /\ ~NewRecords[k].status
    /\ \E k \in 1..Len(NewRecords) : NewRecords[k].status

\* ---------------------------------------------------------------------
\* C9. Complete MFA listing: the MFA list of a report has exactly one
\* finding for every principal of the project, in listing order.
\* Violated: listUsers() is called once, without page arguments, and the
\* first page is reported as the whole listing.
C9_CompleteMfaListing ==
    Report =>
        /\ Len(response.MFA[1]) = Len(users)
        /\ \A i \in 1..Len(users) : response.MFA[1][i].id = users[i].id

\* ---------------------------------------------------------------------
\* C10. For every MFA finding of a report, mfa_enabled is TRUE exactly
\* when the principal with the finding's id has a factor list with at
\* least one factor; a missing or empty list gives FALSE.
C10_MfaEnabledIffFactor ==
    Report =>
        \A j \in 1..Len(response.MFA[1]) :
            \E i \in 1..Len(users) :
                /\ users[i].id = response.MFA[1][j].id
                /\ response.MFA[1][j].mfa_enabled =
                      (users[i].factors # None /\ Len(users[i].factors[1]) >= 1)

\* A report with a finding for a principal without a factor list, and one
\* for a principal with a factor.
C10_Witness ==
    /\ Report
    /\ \E i, j \in 1..Len(response.MFA[1]) :
          /\ users[i].factors = None /\ ~response.MFA[1][i].mfa_enabled
          /\ users[j].factors = Some(<<"totp">>) /\ response.MFA[1][j].mfa_enabled

\* ---------------------------------------------------------------------
\* C11. For every RLS finding of a report, has_policies = (policy_count >
\* 0), whatever rows rpc('check_rls_status') returned.
\* Violated: both fields are copied from the row, neither is derived.
C11_HasPoliciesDerived ==
    Report =>
        \A j \in 1..Len(response.RLS[1]) :
            response.RLS[1][j].has_policies = (response.RLS[1][j].policy_count > 0)

\* ---------------------------------------------------------------------
\* C12. Every RLS audit record of a run is passing (status = TRUE) exactly
\* when the relation it names has rls_enabled and has_policies both TRUE:
\* a relation without policies is logged as failing even when enabled.
C12_RlsPassedIffEnabledWithPolicies ==
    \A k \in 1..Len(NewRecords) :
        NewRecords[k].feature = "RLS" =>
            \E i \in 1..Len(tables) :
                /\ NewRecords[k].resource_name = Some(tables[i].table_name)
                /\ NewRecords[k].status = (tables[i].rls_enabled /\ tables[i].has_policies)

\* An enabled relation without policies was logged as failing.
C12_Witness ==
    \E k \in 1..Len(NewRecords) : \E i \in 1..Len(tables) :
        /\ NewRecords[k].feature = "RLS"
        /\ NewRecords[k].resource_name = Some(tables[i].table_name)
        /\ tables[i].rls_enabled /\ ~tables[i].has_policies
        /\ ~NewRecords[k].status

\* ---------------------------------------------------------------------
\* C13. PITR fail-closed: the PITR value of a report is TRUE exactly when
\* the probe resolved without error and its first row carries
\* pitr_enabled = TRUE; a probe error, no row, or a row without the flag
\* give FALSE.
C13_PitrFailClosed ==
    Report =>
        (response.PITR = Some(TRUE)) =
            (/\ faults.pitr = "ok"
             /\ pitr # <<>>
             /\ pitr[1].pitr_enabled = Some(TRUE))

\* The probe failed on a project whose PITR is on: reported FALSE.
C13_Witness ==
    /\ Report
    /\ faults.pitr = "error"
    /\ pitr = <<[pitr_enabled |-> Some(TRUE)]>>
    /\ response.PITR = Some(FALSE)

\* ---------------------------------------------------------------------
\* C15. No partial report: a response with status 200 carries the MFA
\* list, the RLS list and the PITR value, all three; every other response
\* carries none of them.
C15_NoPartialReport ==
    Answered =>
        IF response.status = 200
        THEN response.MFA # None /\ response.RLS # None /\ response.PITR # None
        ELSE response.MFA = None /\ response.RLS = None /\ response.PITR = None

\* A report whose RLS and PITR checks both failed closed.
C15_Witness ==
    /\ Report
    /\ faults.rls = "error"
    /\ faults.pitr = "error"
    /\ response.MFA # None /\ response.MFA[1] # <<>>

\* ---------------------------------------------------------------------
\* C17. Order of steps inside one run: among the audit records of a run
\* the MFA records come first, then the RLS records, then the PITR record;
\* and the read-back of a report was issued after the last insert: its
\* newest entry is the last record the run appended.
FeatureRank(feature) ==
    CASE feature = "MFA" -> 1
      [] feature = "RLS" -> 2
      [] feature = "PITR" -> 3

C17_StepOrder ==
    /\ \A i, j \in 1..Len(NewRecords) :
          i < j => FeatureRank(NewRecords[i].feature) <= FeatureRank(NewRecords[j].feature)
    /\ \A i, j \in 1..Len(NewRecords) :
          (i # j /\ NewRecords[i].feature = "PITR") => NewRecords[j].feature # "PITR"
    /\ (Report /\ NewRecords # <<>>) =>
          /\ response.logs[1] # <<>>
          /\ response.logs[1][1] = NewRecords[Len(NewRecords)]

\* A report of a run that logged MFA, RLS and PITR records.
C17_Witness ==
    /\ Report
    /\ \E i, j, k \in 1..Len(NewRecords) :
          /\ NewRecords[i].feature = "MFA"
          /\ NewRecords[j].feature = "RLS"
          /\ NewRecords[k].feature = "PITR"

\* ---------------------------------------------------------------------
\* C14. A run changes nothing upstream except appending to the audit log:
\* across every step the principals, the relations and the PITR rows are
\* unchanged, and the audit log after the step starts with the whole log
\* before it, every earlier record as it was.
C14_OnlyAppends ==
    [][/\ users' = users
       /\ tables' = tables
       /\ pitr' = pitr
       /\ Len(security_logs') >= Len(security_logs)
       /\ SubSeq(security_logs', 1, Len(security_logs)) = security_logs]_vars

\* A run appended records to a log that already held some.
C14_Witness ==
    /\ logs_before # <<>>
    /\ NewRecords # <<>>
    /\ \E k \in 1..Len(logs_before) :
          /\ logs_before[k].feature = NewRecords[1].feature
          /\ logs_before[k].resource_name = NewRecords[1].resource_name

\* ---------------------------------------------------------------------
\* C16. Idempotence of findings: when two runs in succession both return
\* a report and their listing and probes ended the same way, the second
\* report has the same MFA, RLS and PITR findings as the first, although
\* the audit log grew in between.
C16_IdempotentFindings ==
    (/\ previous.response.status = 200
     /\ response.status = 200
     /\ previous.faults.rls = faults.rls
     /\ previous.faults.pitr = faults.pitr) =>
        /\ response.MFA = previous.response.MFA
        /\ response.RLS = previous.response.RLS
        /\ response.PITR = previous.response.PITR

\* Two reports in succession, the second on a log the first had written,
\* with all checks completed.
C16_Witness ==
    /\ previous.response.status = 200
    /\ response.status = 200
    /\ previous.faults = NoFaults
    /\ faults = NoFaults
    /\ Len(logs_before) >= Len(response.MFA[1]) + Len(response.RLS[1]) + 1
    /\ response.RLS[1] # <<>>

\* ---------------------------------------------------------------------
\* C18. The read-back of a report holds Min(10, size of the log) records,
\* so at most 10; they are records of the log in strictly descending
\* timestamp order, and every record of the log that is not among them is
\* older than all of them.
C18_RecentWindow ==
    Report =>
        LET w == response.logs[1] IN
        /\ Len(w) <= 10
        /\ Len(w) = Min(10, Len(security_logs))
        /\ \A i \in 1..Len(w) : \E k \in 1..Len(security_logs) : w[i] = security_logs[k]
        /\ \A i, j \in 1..Len(w) : i < j => w[i].timestamp > w[j].timestamp
        /\ \A k \in 1..Len(security_logs) :
              (\A i \in 1..Len(w) : w[i] # security_logs[k]) =>
                  \A i \in 1..Len(w) : w[i].timestamp > security_logs[k].timestamp

\* A report read back from a log of more than 10 records.
C18_Witness ==
    /\ Report
    /\ Len(security_logs) > 10
    /\ Len(response.logs[1]) = 10

\* ======================================================================
\* The chat
\* ======================================================================
\* The route was reached by the request handled last.
RouteAnswered == handled.outcome \in {"reply", "failure"}

\* The parts of a text.
Parts(text) == {text[k] : k \in 1..Len(text)}

\* ---------------------------------------------------------------------
\* C19. Forwarded chat request: the request the route sends to the
\* chat-completion capability is one system message, whose text holds the
\* reference block of the request's feature and names the resource exactly
\* when the request carries one, followed by the messages of the request
\* body in the same order with role and content unchanged; a reply of the
\* capability is returned as the message of the response, unmodified.
C19_ForwardedRequest ==
    RouteAnswered =>
        LET b == handled.body
            fw == handled.forwarded
        IN  /\ Len(fw) = Len(b.messages) + 1
            /\ fw[1].role = "system"
            /\ securityDocs(b.feature) \in Parts(fw[1].content[1])
            /\ \A other \in Features \ {b.feature} :
                  securityDocs(other) \notin Parts(fw[1].content[1])
            /\ (b.resourceName # None) =
                  (\E name \in {"orders", "ann@x.io"} :
                      name \in Parts(fw[1].content[1]) /\ b.resourceName = Some(name))
            /\ \A i \in 1..Len(b.messages) :
                  /\ fw[i + 1].role = b.messages[i].role
                  /\ fw[i + 1].content = b.messages[i].content
            /\ handled.outcome = "reply" =>
                  handled.status = 200 /\ handled.message = Some(handled.reply)

\* The second turn of a session about a named resource was answered: its
\* request carried the earlier assistant reply.
C19_Witness ==
    /\ handled.outcome = "reply"
    /\ handled.body.resourceName # None
    /\ Len(handled.body.messages) >= 4
    /\ handled.body.messages[3].role = "assistant"

\* ---------------------------------------------------------------------
\* C20. A failed chat call (the route answered 500, or the fetch itself
\* failed) is shown in the conversation: handling it adds an entry to the
\* transcript, and that entry is not an ordinary assistant reply.
\* Violated: a rejected fetch is only logged to the console and adds
\* nothing; a 500 answer is parsed like a reply and appended as an
\* assistant message with undefined content.
C20_FailureShown ==
    handled.outcome \in {"failure", "rejected"} =>
        /\ Len(handled.after) > Len(handled.shown)
        /\ handled.after[Len(handled.after)].role # "assistant"

\* ---------------------------------------------------------------------
\* C21. The transcript is in send order: the answers appended to the
\* transcript come in the order of the requests they answer, so the reply
\* to a user message precedes the reply to every later user message.
\* Violated: the Enter key sends while an earlier request is awaiting its
\* answer, and the answers are appended in the order they arrive.
C21_SendOrder ==
    \A i, j \in 1..Len(handled.replied) :
        i < j => handled.replied[i] < handled.replied[j]

\* ---------------------------------------------------------------------
\* C22. Each chat turn resends the whole conversation: the message list
\* in the request of the send made last is the transcript as displayed
\* when it was sent (every earlier assistant reply included) followed by
\* the new user message, which is the transcript right after the send.
C22_ResendsWholeTranscript ==
    \A p \in pending :
        p.id = clock - 1 =>
            /\ p.body.messages = messages
            /\ messages[Len(messages)].role = "user"
            /\ messages[Len(messages)].timestamp = p.id
            /\ p.body.feature = session.feature
            /\ p.body.resourceName = session.resourceName

\* The second message of a session was just sent, after the first one
\* had been answered.
C22_Witness ==
    \E p \in pending :
        /\ p.id = clock - 1
        /\ Len(p.body.messages) = 4
        /\ p.body.messages[3].role = "assistant"
        /\ p.body.messages[3].content # None

\* ---------------------------------------------------------------------
\* C25. At most one chat request of a session is awaiting its answer, and
\* loading is true whenever one is.
\* Violated: the Enter key calls handleSendMessage whatever loading is,
\* and the first answer to arrive resets loading while the other request
\* is still outstanding.
C25_OneInFlight ==
    /\ Cardinality(pending) <= 1
    /\ pending # {} => chatLoading

\* ---------------------------------------------------------------------
\* C26. Audit writes are all-or-nothing per run: a run answered with an
\* error (401 or 500) has appended no audit record.
\* Violated: a call that rejects after the first inserts (an insert or an
\* rpc) ends the run in the catch block with status 500, and the records
\* written before it stay in the log.
C26_ErrorRunWritesNothing ==
    (Answered /\ response.status \in {401, 500}) => security_logs = logs_before

\* ---------------------------------------------------------------------
\* C27. Report and audit log agree: in a run that returned a report, the
\* audit record written for an MFA finding has feature MFA, the finding's
\* email as resource and status equal to the finding's mfa_enabled; the
\* record written for PITR has feature PITR, no resource, and status
\* equal to the report's PITR value.
\* The k-th insert of the run wrote the k-th new record, one place earlier
\* when an insert before it failed, and none when it failed itself.
InsertWritten(k) == faults.insertAt # k
RecordOfInsert(k) ==
    NewRecords[IF faults.insertAt # 0 /\ faults.insertAt < k THEN k - 1 ELSE k]

C27_ReportAgreesWithLog ==
    Report =>
        LET mfa == response.MFA[1]
            pitrInsert == Len(mfa) + (IF faults.rls = "ok" THEN Len(tables) ELSE 0) + 1
        IN  /\ \A k \in 1..Len(mfa) :
                  InsertWritten(k) =>
                      /\ RecordOfInsert(k).feature = "MFA"
                      /\ RecordOfInsert(k).resource_name = mfa[k].email
                      /\ RecordOfInsert(k).status = mfa[k].mfa_enabled
            /\ InsertWritten(pitrInsert) =>
                  /\ RecordOfInsert(pitrInsert).feature = "PITR"
                  /\ RecordOfInsert(pitrInsert).resource_name = None
                  /\ RecordOfInsert(pitrInsert).status = response.PITR[1]
                  /\ RecordOfInsert(pitrInsert) = security_logs[Len(security_logs)]

\* A report with a principal that has a factor and one that has none, and
\* PITR on; the MFA record of the first principal was not written, the
\* other records were.
C27_Witness ==
    /\ Report
    /\ Len(response.MFA[1]) = 2
    /\ response.MFA[1][1].mfa_enabled /\ ~response.MFA[1][2].mfa_enabled
    /\ response.PITR = Some(TRUE)
    /\ faults.insertAt = 1
    /\ Len(NewRecords) = 2 + Len(tables)

IssuePair(issue) == [feature |-> issue.feature, resourceName |-> issue.resourceName]

FailingFindings(report) ==
    {[feature |-> "MFA", resourceName |-> OrUndefined(report.MFA[1][i].email)] :
        i \in {j \in 1..Len(report.MFA[1]) : report.MFA[1][j].mfa_enabled = FALSE}}
    \cup {[feature |-> "RLS", resourceName |-> Some(report.RLS[1][i].table)] :
              i \in {j \in 1..Len(report.RLS[1]) :
                         report.RLS[1][j].rls_enabled = FALSE
                            \/ report.RLS[1][j].has_policies = FALSE}}
    \cup {[feature |-> "PITR", resourceName |-> None] : x \in {report.PITR} \ {Some(TRUE)}}

FailingRecords(report) ==
    {[feature |-> report.logs[1][i].feature,
      resourceName |-> OrUndefined(report.logs[1][i].resource_name)] :
        i \in {j \in 1..Len(report.logs[1]) : report.logs[1][j].status = FALSE}}

C28_CredentialsAsPair ==
    /\ (login.projectUrl = None) = (login.serviceKey = None)
    /\ (cookies.projectUrl = None) = (cookies.serviceKey = None)
    /\ login.body # None =>
          LET b == login.body[1]
              present(v) == v # None /\ v # Some("")
          IN  IF present(b.projectUrl) /\ present(b.serviceKey)
              THEN /\ login.status = 200
                   /\ login.projectUrl = b.projectUrl
                   /\ login.serviceKey = b.serviceKey
              ELSE /\ login.status = 400
                   /\ login.projectUrl = None /\ login.serviceKey = None

\* A login without a service key was refused after an earlier login had
\* stored a pair, which the browser still holds.
C28_Witness ==
    /\ login.status = 400
    /\ login.body[1].projectUrl = Some("https://proj.supabase.co")
    /\ login.body[1].serviceKey = None
    /\ cookies.serviceKey = Some("eyJgood")

\* ---------------------------------------------------------------------
\* C29. At most one compliance run is in flight from the dashboard, and
\* loading is true exactly while one is: from the start of a run until its
\* answer (or the failure of its fetch) has been handled, whatever the
\* outcome.
C29_OneRunInFlight ==
    /\ inflight <= 1
    /\ loading = (inflight > 0)

\* A second run was started after the first had failed.
C29_Witness ==
    /\ handledRun.outcome \in {"notOk", "rejected"}
    /\ runs = 2
    /\ inflight = 1
    /\ loading

\* ---------------------------------------------------------------------
\* C30. A failed run leaves the displayed report unchanged: when the
\* answer of a run was not ok or its fetch failed, results keeps the value
\* it had before the run; results never holds an error body.
C30_FailedRunKeepsReport ==
    /\ handledRun.outcome \in {"notOk", "rejected"} => results = handledRun.before
    /\ results # None => results[1].status = 200 /\ results[1].MFA # None

\* A run answered 500 while the report of an earlier run was displayed.
C30_Witness ==
    /\ handledRun.outcome = "notOk"
    /\ response.status = 500
    /\ results # None
    /\ results = handledRun.before

====
